---- MODULE Spec2Model ----
(***************************************************************************)
(* Model of the reference-resolution evaluator of HereIsKevin/edible.      *)
(* Two prototypes of the evaluator are in the repository, evaluator.py and *)
(* evaluator2.py; `variant` selects which one a behaviour runs (1 or 2).   *)
(* The recursive evaluator is modelled as a stack machine: one frame per   *)
(* active call of _evaluate_table, _evaluate_ref and _evaluate_key/_unwrap.*)
(* A node of the expression tree is identified by its path from the root;  *)
(* the fields Ref._parent, Ref._cache and Ref._evaluated are functions of  *)
(* the reference's path.                                                   *)
(***************************************************************************)
EXTENDS Integers, Sequences, FiniteSets, TLC

VARIABLES
    tree,       \* Evaluator._expr: the expression tree handed to the Evaluator
    variant,    \* 1: evaluator.py, 2: evaluator2.py
    parent,     \* Ref._parent (evaluator2: Ref.parent), by reference path
    cache,      \* Ref._cache (Ref.cache), by reference path
    evaluated,  \* Ref._evaluated (Ref.evaluated), by reference path
    stack,      \* the active calls, innermost last
    ret,        \* value returned by the call that just finished
    status,     \* "idle", "running", "returned", "raised"; of a lookup after
                \* evaluate(): "probing", "probed", "probe raised"
    probe,      \* the root item looked up after evaluate(), 0 if none
    error,      \* the exception that left evaluate(), or "none"
    calls,      \* number of evaluate() calls made so far
    log         \* what the run printed / did: MATCH, FAILURE, OK, HOT EXIT ...

vars == <<tree, variant, parent, cache, evaluated, stack, ret, status, probe, error, calls, log>>

-----------------------------------------------------------------------------
(* Bounds of the model. *)
MaxItems == 3

MaxRefItems == 2

MaxCalls == 2

-----------------------------------------------------------------------------
(* The expression variants. *)
None == [kind |-> "None"]

Str(v) == [kind |-> "Str", value |-> v]

Bool(v) == [kind |-> "Bool", value |-> v]

IntV(v) == [kind |-> "Int", value |-> v]   \* class Int (the name Int is taken by Integers)

Float(v) == [kind |-> "Float", value |-> v]

ABSOLUTE == "ABSOLUTE"

RELATIVE == "RELATIVE"

RefModifier == {ABSOLUTE, RELATIVE}

Ref(keys, modifier) == [kind |-> "Ref", keys |-> keys, modifier |-> modifier]

TableItem(key, value, par) == [key |-> key, value |-> value, parent |-> par]

Table(items) == [kind |-> "Table", items |-> items]

-----------------------------------------------------------------------------
(* Node identity: the path from the root.  A step <<i, "key">>,            *)
(* <<i, "value">> or <<i, "parent">> enters the i-th item of a Table, a    *)
(* step <<j, "keys">> enters the j-th key of a Ref.                        *)
NoneP == << <<0, "None">> >>

RootP == << >>

Child(node, step) ==
    IF node.kind = "Table"
    THEN LET item == node.items[step[1]]
         IN  CASE step[2] = "key" -> item.key
               [] step[2] = "value" -> item.value
               [] step[2] = "parent" -> item.parent
    ELSE node.keys[step[1]]

RECURSIVE NodeOf(_, _)
NodeOf(node, p) ==
    IF p = << >> THEN node ELSE NodeOf(Child(node, Head(p)), Tail(p))

RECURSIVE PathsFrom(_, _)
PathsFrom(node, p) ==
    {p} \cup
    CASE node.kind = "Table" ->
            UNION { PathsFrom(node.items[i].key, Append(p, <<i, "key">>))
                    \cup PathsFrom(node.items[i].value, Append(p, <<i, "value">>))
                    \cup (IF node.items[i].parent.kind = "None" THEN {}
                          ELSE PathsFrom(node.items[i].parent, Append(p, <<i, "parent">>)))
                    : i \in DOMAIN node.items }
      [] node.kind = "Ref" ->
            UNION { PathsFrom(node.keys[j], Append(p, <<j, "keys">>)) : j \in DOMAIN node.keys }
      [] OTHER -> {}

RefPathsOf(t) == { p \in PathsFrom(t, RootP) : NodeOf(t, p).kind = "Ref" }

(* A reference built after evaluate() to look up the key of the i-th item  *)
(* of the root: Ref([item.key]).  It is not part of the tree.              *)
ProbeP(i) == << <<i, "probe">> >>

IsProbe(p) == p # << >> /\ Head(p)[2] = "probe"

ProbesOf(t) == IF t.kind = "Table" THEN { ProbeP(i) : i \in DOMAIN t.items } ELSE {}

(* The references of the tree (the domain of the fields, less the lookups). *)
RefPaths == { r \in DOMAIN cache : ~IsProbe(r) }

Node(p) ==
    IF p = NoneP THEN None
    ELSE IF IsProbe(p) THEN Ref(<< tree.items[Head(p)[1]].key >>, ABSOLUTE)
    ELSE NodeOf(tree, p)

ItemKeyP(t, i) == Append(t, <<i, "key">>)

ItemValueP(t, i) == Append(t, <<i, "value">>)

ItemParentP(t, i) == Append(t, <<i, "parent">>)

RefKeyP(r, j) == IF IsProbe(r) THEN ItemKeyP(RootP, Head(r)[1]) ELSE Append(r, <<j, "keys">>)

-----------------------------------------------------------------------------
(* The documents the model evaluates: a root Table of up to MaxItems       *)
(* entries drawn from Entries, at most MaxRefItems of them with references *)
(* in them, and a few roots that are not tables.                           *)
A == Str("a")

B == Str("b")

Abs(keys) == Ref(keys, ABSOLUTE)

Rel(keys) == Ref(keys, RELATIVE)

Nested ==
    Table(<< TableItem(A, A, None),
             TableItem(Rel(<<A>>), Table(<< TableItem(B, Rel(<<B>>), None),
                                            TableItem(A, Abs(<<A>>), None),
                                            TableItem(Rel(<<A>>), B, None) >>), None),
             TableItem(B, Rel(<<A>>), Rel(<<B>>)) >>)

Entries ==
    { TableItem(A, B, None),
      TableItem(B, A, None),
      TableItem(A, Abs(<<B>>), None),
      TableItem(A, Abs(<<A>>), None),
      TableItem(B, Abs(<<A, B>>), None),
      TableItem(B, Abs(<< Abs(<<A>>) >>), None),
      TableItem(B, Rel(<< Rel(<<A>>) >>), None),
      TableItem(Abs(<< Bool(TRUE) >>), A, None),
      TableItem(Abs(<< IntV(1) >>), B, None),
      TableItem(Abs(<< Abs(<<A>>) >>), B, None),
      TableItem(IntV(1), A, None),
      TableItem(B, Nested, None) }

RECURSIVE SeqsUpTo(_, _)
SeqsUpTo(S, n) ==
    IF n = 0 THEN { << >> }
    ELSE LET shorter == SeqsUpTo(S, n - 1)
         IN  shorter \cup { Append(s, e) : s \in { t \in shorter : Len(t) = n - 1 }, e \in S }

HasRef(item) == RefPathsOf(Table(<<item>>)) # {}

Documents ==
    { Table(items) : items \in
        { s \in SeqsUpTo(Entries, MaxItems) :
            Cardinality({ i \in DOMAIN s : HasRef(s[i]) }) <= MaxRefItems } }
    \cup { A, Rel(<<A>>), Rel(<< >>), Abs(<< >>) }

-----------------------------------------------------------------------------
Init ==
    /\ tree \in Documents
    /\ variant \in {1, 2}
    /\ parent = [p \in RefPathsOf(tree) \cup ProbesOf(tree) |-> NoneP]
    /\ cache = [p \in RefPathsOf(tree) \cup ProbesOf(tree) |-> NoneP]
    /\ evaluated = [p \in RefPathsOf(tree) \cup ProbesOf(tree) |-> FALSE]
    /\ stack = << >>
    /\ ret = NoneP
    /\ status = "idle"
    /\ probe = 0
    /\ error = "none"
    /\ calls = 0
    /\ log = {}

-----------------------------------------------------------------------------
(* Evaluator._resolve: the pairs <<reference, parent>> the pass assigns.   *)
(* A Ref gets the ambient table; its keys are not visited.                 *)
RECURSIVE _resolve(_, _, _)
_resolve(t, par, p) ==
    LET expr == NodeOf(t, p)
    IN  CASE expr.kind = "Ref" -> { <<p, par>> }
          [] expr.kind = "Table" ->
                UNION { _resolve(t, p, ItemKeyP(p, i))
                        \cup _resolve(t, p, ItemValueP(p, i))
                        \cup (IF expr.items[i].parent.kind = "None" THEN {}
                              ELSE _resolve(t, p, ItemParentP(p, i)))
                        : i \in DOMAIN expr.items }
          [] OTHER -> {}

Resolved(t, old) ==
    LET par == IF t.kind = "Table" THEN RootP ELSE NoneP
        assigned == _resolve(t, par, RootP)
    IN  [r \in DOMAIN old |->
            IF \E a \in assigned : a[1] = r
            THEN (CHOOSE a \in assigned : a[1] = r)[2]
            ELSE old[r]]

-----------------------------------------------------------------------------
(* Frames. *)
TableFrame(t) == [fn |-> "_evaluate_table", node |-> t, i |-> 1, pc |-> "key"]

Unbound == << <<0, "Unbound">> >>

RefFrame(r) ==
    [fn |-> "_evaluate_ref", node |-> r, pc |-> "enter", k |-> 1,
     current |-> NoneP, curry |-> NoneP, key |-> Unbound,
     j |-> 1, item_key |-> Unbound]

KeyFrame(e) == [fn |-> "_evaluate_key", expr |-> e, pc |-> "test"]

(* Evaluator._evaluate: dispatch on the kind of the expression. *)
_evaluate(stk, p) ==
    CASE Node(p).kind = "Ref" -> Append(stk, RefFrame(p))
      [] Node(p).kind = "Table" -> Append(stk, TableFrame(p))
      [] OTHER -> stk

Top == stack[Len(stack)]

Below == SubSeq(stack, 1, Len(stack) - 1)

SetTop(f) == [stack EXCEPT ![Len(stack)] = f]

Running(fn, pc) ==
    /\ status \in {"running", "probing"}
    /\ stack # << >>
    /\ Top.fn = fn
    /\ Top.pc = pc

(* The exceptions the try around the item-key unwrap catches; a           *)
(* RecursionError is a RuntimeError.                                       *)
Caught(v) ==
    IF v = 1 THEN {"RuntimeError", "RecursionError", "TypeError"}
    ELSE {"RuntimeError", "RecursionError"}

(* Index of the innermost frame of stk that catches exc: a scan waiting    *)
(* for the unwrapped key of an item; 0 if no frame catches it.             *)
Handler(stk, exc) ==
    LET hs == { h \in DOMAIN stk : /\ stk[h].fn = "_evaluate_ref"
                                   /\ stk[h].pc = "gotitem"
                                   /\ exc \in Caught(variant) }
    IN  IF hs = {} THEN 0 ELSE CHOOSE h \in hs : \A g \in hs : g <= h

(* The table a lookup scans. *)
Scanned(f) == IF variant = 1 THEN f.current ELSE f.curry

(* An entry of the log: what the call f of _evaluate_ref did. *)
Event(ev, f, exc) ==
    [ev |-> ev, ref |-> f.node, seg |-> f.k, pc |-> f.pc, table |-> Scanned(f),
     item |-> f.j, key |-> f.key, item_key |-> f.item_key, exc |-> exc]

(* __repr__: what repr() of a node visits.  A Table shows its items (key,  *)
(* value, parent), a Ref shows only its cache.                             *)
ReprChildren(p) ==
    LET n == Node(p)
    IN  CASE n.kind = "Table" ->
                UNION { {ItemKeyP(p, i), ItemValueP(p, i)}
                        \cup (IF n.items[i].parent.kind = "None" THEN {}
                              ELSE {ItemParentP(p, i)}) : i \in DOMAIN n.items }
          [] n.kind = "Ref" -> IF cache[p] = NoneP THEN {} ELSE {cache[p]}
          [] OTHER -> {}

RECURSIVE ReprVisits(_)
ReprVisits(S) ==
    LET T == S \cup UNION { ReprChildren(p) : p \in S }
    IN  IF T = S THEN S ELSE ReprVisits(T)

(* Following the caches from p for n steps meets references only. *)
RECURSIVE RefChain(_, _)
RefChain(p, n) ==
    /\ Node(p).kind = "Ref"
    /\ n = 0 \/ RefChain(cache[p], n - 1)

(* Ref.__repr__ is repr(self._cache): on a cycle of caches it recurses     *)
(* until RecursionError (lists and dataclass reprs are guarded, Ref's is   *)
(* not).                                                                   *)
ReprRaises(p) ==
    \E r \in ReprVisits({p}) : RefChain(r, Cardinality(DOMAIN cache))

(* evaluator.py prints key, item.key and current in every step of a scan;  *)
(* evaluator2.py prints no expression.                                     *)
PrintRaises(current) == variant = 1 /\ ReprRaises(current)

(* The calls of _evaluate_ref among stk[lo..hi] that exc leaves: the       *)
(* innermost one raised it, through the others it propagated.              *)
Left(stk, lo, hi, exc) ==
    { Event(IF i = Len(stk) THEN "RAISED" ELSE "PROPAGATED", stk[i], exc)
      : i \in { x \in lo..hi : stk[x].fn = "_evaluate_ref" } }

(* The innermost call of stk raises exc: unwind to the handler, which      *)
(* prints FAILURE and skips the item it was looking at, or out of          *)
(* evaluate().  The print is outside the try, so a RecursionError of the   *)
(* print goes on to the calls below.                                       *)
RECURSIVE Unwind(_, _, _)
Unwind(stk, exc, lg) ==
    LET h == Handler(SubSeq(stk, 1, Len(stk) - 1), exc)
        lg2 == lg \cup Left(stk, h + 1, Len(stk), exc)
    IN  IF h = 0
        THEN [stack |-> << >>, error |-> exc, log |-> lg2,
              status |-> IF status = "probing" THEN "probe raised" ELSE "raised"]
        ELSE IF PrintRaises(stk[h].current)
             THEN Unwind(SubSeq(stk, 1, h), "RecursionError", lg2)
             ELSE [stack |-> [SubSeq(stk, 1, h) EXCEPT ![h].pc = "scan", ![h].j = @ + 1],
                   status |-> status, error |-> error,
                   log |-> lg2 \cup { Event("FAILURE", stk[h], exc) }]

(* raise exc in the innermost call. *)
Raise(exc, lg) ==
    LET u == Unwind(stack, exc, lg)
    IN  /\ stack' = u.stack
        /\ status' = u.status
        /\ error' = u.error
        /\ log' = u.log

IsKey(node) == node.kind \in {"Str", "Int"}

(* Python's == on the .value of two scalars: an int never equals a str. *)
ValueEq(x, y) == x.kind = y.kind /\ x.value = y.value

-----------------------------------------------------------------------------
Evaluate_mut ==
    /\ status \in {"idle", "returned", "raised"}
    /\ calls < MaxCalls
    /\ parent' = Resolved(tree, parent)
    /\ evaluated' = [r \in DOMAIN evaluated |-> FALSE]
    /\ stack' = _evaluate(<< >>, RootP)
    /\ status' = "running"
    /\ error' = "none"
    /\ calls' = calls + 1
    /\ UNCHANGED <<tree, variant, cache, ret, probe, log>>

(* evaluate(): the resolver pass, then _evaluate(self._expr). *)
Evaluate ==
    /\ status \in {"idle", "returned", "raised"}
    /\ calls < MaxCalls
    /\ parent' = Resolved(tree, parent)
    /\ stack' = _evaluate(<< >>, RootP)
    /\ status' = "running"
    /\ error' = "none"
    /\ calls' = calls + 1
    /\ UNCHANGED <<tree, variant, cache, evaluated, ret, probe, log>>

(* evaluate() returns self._expr; the log notes which call returned. *)
EvaluateReturn ==
    /\ status = "running"
    /\ stack = << >>
    /\ status' = "returned"
    /\ log' = log \cup { [ev |-> "RETURNED", ref |-> RootP, seg |-> calls, pc |-> "return",
                           table |-> RootP, item |-> 0, key |-> Unbound,
                           item_key |-> Unbound, exc |-> "none"] }
    /\ UNCHANGED <<tree, variant, parent, cache, evaluated, stack, ret, probe, error, calls>>

(* After a successful evaluate(): resolve the absolute reference [k] for   *)
(* the key k of the i-th item of the root, _evaluate_ref(Ref([k])).        *)
Lookup ==
    /\ status = "returned"
    /\ probe = 0
    /\ \E r \in ProbesOf(tree) :
          /\ probe' = Head(r)[1]
          /\ stack' = << RefFrame(r) >>
    /\ status' = "probing"
    /\ UNCHANGED <<tree, variant, parent, cache, evaluated, ret, error, calls, log>>

(* The lookup returns. *)
LookupReturn ==
    /\ status = "probing"
    /\ stack = << >>
    /\ status' = "probed"
    /\ UNCHANGED <<tree, variant, parent, cache, evaluated, stack, ret, probe, error, calls, log>>

(* _evaluate_table: self._evaluate(item.key), or the end of the loop. *)
TableKey ==
    /\ Running("_evaluate_table", "key")
    /\ stack' = IF Top.i > Len(Node(Top.node).items)
                THEN Below
                ELSE _evaluate(SetTop([Top EXCEPT !.pc = "value"]), ItemKeyP(Top.node, Top.i))
    /\ UNCHANGED <<tree, variant, parent, cache, evaluated, ret, status, probe, error, calls, log>>

(* _evaluate_table: self._evaluate(item.value). *)
TableValue ==
    /\ Running("_evaluate_table", "value")
    /\ stack' = _evaluate(SetTop([Top EXCEPT !.pc = "key", !.i = @ + 1]),
                          ItemValueP(Top.node, Top.i))
    /\ UNCHANGED <<tree, variant, parent, cache, evaluated, ret, status, probe, error, calls, log>>

(* The reference r is being evaluated in a call below the innermost one. *)
InProgress(r) ==
    \E h \in DOMAIN Below : Below[h].fn = "_evaluate_ref" /\ Below[h].node = r

(* _evaluate_ref: "if ref._evaluated: return". *)
RefHotExit ==
    /\ Running("_evaluate_ref", "enter")
    /\ evaluated[Top.node]
    /\ stack' = Below
    /\ log' = log \cup { Event(IF InProgress(Top.node) THEN "REENTER" ELSE "HOT EXIT",
                               Top, "none") }
    /\ UNCHANGED <<tree, variant, parent, cache, evaluated, ret, status, probe, error, calls>>

Start_mut(r) == RootP

(* _evaluate_ref: the starting target, the root for an absolute reference  *)
(* and the resolved parent for a relative one.                             *)
Start(r) == IF Node(r).modifier = ABSOLUTE THEN RootP ELSE parent[r]

RefEnter_mut ==
    /\ Running("_evaluate_ref", "enter")
    /\ ~evaluated[Top.node] \/ ~InProgress(Top.node)
    /\ evaluated' = [evaluated EXCEPT ![Top.node] = TRUE]
    /\ stack' = SetTop([Top EXCEPT !.pc = "key", !.current = Start(Top.node)])
    /\ UNCHANGED <<tree, variant, parent, cache, ret, status, probe, error, calls, log>>

(* _evaluate_ref: set the flag and choose the starting target. *)
RefEnter ==
    /\ Running("_evaluate_ref", "enter")
    /\ ~evaluated[Top.node]
    /\ evaluated' = [evaluated EXCEPT ![Top.node] = TRUE]
    /\ stack' = SetTop([Top EXCEPT !.pc = "key", !.current = Start(Top.node)])
    /\ UNCHANGED <<tree, variant, parent, cache, ret, status, probe, error, calls, log>>

(* The tree t with the node at path p replaced by new. *)
RECURSIVE Replace(_, _, _)
Replace(node, p, new) ==
    IF p = << >> THEN new
    ELSE LET i == Head(p)[1]
             sub(c) == Replace(c, Tail(p), new)
         IN  CASE Head(p)[2] = "key" -> [node EXCEPT !.items[i].key = sub(@)]
               [] Head(p)[2] = "value" -> [node EXCEPT !.items[i].value = sub(@)]
               [] Head(p)[2] = "parent" -> [node EXCEPT !.items[i].parent = sub(@)]
               [] Head(p)[2] = "keys" -> [node EXCEPT !.keys[i] = sub(@)]

RefReturn_mut ==
    /\ Running("_evaluate_ref", "key")
    /\ Top.k > Len(Node(Top.node).keys)
    /\ cache' = [cache EXCEPT ![Top.node] = Top.current]
    /\ tree' = IF IsProbe(Top.node) \/ Top.current = NoneP THEN tree
               ELSE Replace(tree, Top.node, Node(Top.current))
    /\ stack' = Below
    /\ UNCHANGED <<variant, parent, evaluated, ret, status, probe, error, calls, log>>

RefReturn_clear ==
    /\ Running("_evaluate_ref", "key")
    /\ Top.k > Len(Node(Top.node).keys)
    /\ cache' = [cache EXCEPT ![Top.node] = Top.current]
    /\ evaluated' = [evaluated EXCEPT ![Top.node] = FALSE]
    /\ stack' = Below
    /\ UNCHANGED <<tree, variant, parent, ret, status, probe, error, calls, log>>

(* _evaluate_ref: after the last key, "ref._cache = current". *)
RefReturn ==
    /\ Running("_evaluate_ref", "key")
    /\ Top.k > Len(Node(Top.node).keys)
    /\ cache' = [cache EXCEPT ![Top.node] = Top.current]
    /\ stack' = Below
    /\ UNCHANGED <<tree, variant, parent, evaluated, ret, status, probe, error, calls, log>>

(* _evaluate_ref: head of "for key in ref.keys".  evaluator.py unwraps the *)
(* key; evaluator2.py checks current for None and unwraps current first.   *)
RefNextKey ==
    /\ Running("_evaluate_ref", "key")
    /\ Top.k <= Len(Node(Top.node).keys)
    /\ IF variant = 1
       THEN /\ stack' = Append(SetTop([Top EXCEPT !.pc = "gotkey"]),
                               KeyFrame(RefKeyP(Top.node, Top.k)))
            /\ UNCHANGED <<status, error, log>>
       ELSE IF Top.current = NoneP
            THEN Raise("TypeError", log)
            ELSE /\ stack' = Append(SetTop([Top EXCEPT !.pc = "gotcurry"]),
                                    KeyFrame(Top.current))
                 /\ UNCHANGED <<status, error, log>>
    /\ UNCHANGED <<tree, variant, parent, cache, evaluated, ret, probe, calls>>

(* evaluator2.py: "curry = self._unwrap(current)" returned; unwrap the key. *)
RefGotCurry ==
    /\ Running("_evaluate_ref", "gotcurry")
    /\ stack' = Append(SetTop([Top EXCEPT !.pc = "gotkey", !.curry = ret]),
                       KeyFrame(RefKeyP(Top.node, Top.k)))
    /\ UNCHANGED <<tree, variant, parent, cache, evaluated, ret, status, probe, error, calls, log>>

(* The key is unwrapped.  evaluator.py: "match current", only a Table is   *)
(* scanned, anything else falls through to the next key.  evaluator2.py:   *)
(* the key must be a Str and curry a Table.                                *)
RefGotKey ==
    /\ Running("_evaluate_ref", "gotkey")
    /\ IF variant = 1
       THEN IF Node(Top.current).kind = "Table"
            THEN /\ stack' = SetTop([Top EXCEPT !.key = ret, !.pc = "scan", !.j = 1])
                 /\ UNCHANGED <<status, error, log>>
            ELSE /\ stack' = SetTop([Top EXCEPT !.key = ret, !.pc = "key", !.k = @ + 1])
                 /\ log' = log \cup { Event("NOTTABLE", Top, "none") }
                 /\ UNCHANGED <<status, error>>
       ELSE IF Node(ret).kind # "Str"
            THEN Raise("TypeError", log)
            ELSE IF Node(Top.curry).kind # "Table"
            THEN Raise("TypeError", log \cup { Event("NOTTABLE", Top, "TypeError") })
            ELSE /\ stack' = SetTop([Top EXCEPT !.key = ret, !.pc = "scan", !.j = 1])
                 /\ UNCHANGED <<status, error, log>>
    /\ UNCHANGED <<tree, variant, parent, cache, evaluated, ret, probe, calls>>

(* "for item in items": unwrap the next item's key; at the end of the      *)
(* items evaluator.py raises KeyError("Key not found.", key, item_key)     *)
(* (item_key may not be bound yet), evaluator2.py goes on to the next key. *)
RefScan ==
    /\ Running("_evaluate_ref", "scan")
    /\ IF Top.j <= Len(Node(Scanned(Top)).items)
       THEN /\ stack' = Append(SetTop([Top EXCEPT !.pc = "gotitem"]),
                               KeyFrame(ItemKeyP(Scanned(Top), Top.j)))
            /\ UNCHANGED <<status, error, log>>
       ELSE IF variant = 1
            THEN LET exc == IF Top.item_key = Unbound THEN "UnboundLocalError" ELSE "KeyError"
                 IN  Raise(exc, log \cup { Event("NOTFOUND", Top, exc) })
            ELSE /\ stack' = SetTop([Top EXCEPT !.pc = "key", !.k = @ + 1])
                 /\ log' = log \cup { Event("NOTFOUND", Top, "none") }
                 /\ UNCHANGED <<status, error>>
    /\ UNCHANGED <<tree, variant, parent, cache, evaluated, ret, probe, calls>>

Matches_mut(key, item_key) == Node(item_key).kind = "Str"

(* evaluator.py line 238: the item matches the key. *)
Matches(key, item_key) ==
    Node(item_key).kind = "Str" /\ ValueEq(Node(key), Node(item_key))

(* The item's key is unwrapped: on a match current = item.value and the    *)
(* scan stops; evaluator2.py raises TypeError for an item key not a Str,   *)
(* evaluator.py prints MATCH or OK before it goes on.                      *)
RefGotItemKey ==
    /\ Running("_evaluate_ref", "gotitem")
    /\ LET f == [Top EXCEPT !.item_key = ret]
           ev(e) == Event(e, f, "none")
       IN  IF variant = 2 /\ Node(ret).kind # "Str"
           THEN Raise("TypeError", log)
           ELSE IF PrintRaises(f.current)
           THEN Raise("RecursionError", log)
           ELSE /\ IF Matches(f.key, ret)
                   THEN /\ stack' = SetTop([f EXCEPT !.current = ItemValueP(Scanned(f), f.j),
                                                     !.pc = "key", !.k = @ + 1])
                        /\ log' = log \cup { ev("MATCH") }
                   ELSE /\ stack' = SetTop([f EXCEPT !.pc = "scan", !.j = @ + 1])
                        /\ log' = log \cup { ev("OK") }
                /\ UNCHANGED <<status, error>>
    /\ UNCHANGED <<tree, variant, parent, cache, evaluated, ret, probe, calls>>

(* _evaluate_key / _unwrap, loop test: return a terminal value, force a    *)
(* Ref, or (evaluator.py) raise TypeError for a value that is no key.      *)
KeyTest ==
    /\ Running("_evaluate_key", "test")
    /\ LET n == Node(Top.expr)
       IN  IF n.kind = "Ref"
           THEN /\ stack' = _evaluate(SetTop([Top EXCEPT !.pc = "after"]), Top.expr)
                /\ UNCHANGED <<ret, status, error, log>>
           ELSE IF variant = 2 \/ IsKey(n)
                THEN /\ stack' = Below
                     /\ ret' = Top.expr
                     /\ UNCHANGED <<status, error, log>>
                ELSE /\ Raise("TypeError", log)
                     /\ UNCHANGED ret
    /\ UNCHANGED <<tree, variant, parent, cache, evaluated, probe, calls>>

(* _evaluate_key / _unwrap after self._evaluate(key): follow the cache, or *)
(* raise RuntimeError("Failed to evaluate reference.").                    *)
KeyAfter ==
    /\ Running("_evaluate_key", "after")
    /\ IF cache[Top.expr] = NoneP
       THEN Raise("RuntimeError", log)
       ELSE /\ stack' = SetTop([Top EXCEPT !.expr = cache[Top.expr], !.pc = "test"])
            /\ UNCHANGED <<status, error, log>>
    /\ UNCHANGED <<tree, variant, parent, cache, evaluated, ret, probe, calls>>

Next ==
    \/ Evaluate
    \/ EvaluateReturn
    \/ Lookup
    \/ LookupReturn
    \/ TableKey
    \/ TableValue
    \/ RefHotExit
    \/ RefEnter
    \/ RefReturn
    \/ RefNextKey
    \/ RefGotCurry
    \/ RefGotKey
    \/ RefScan
    \/ RefGotItemKey
    \/ KeyTest
    \/ KeyAfter

Spec == Init /\ [][Next]_vars

(* The interpreter keeps running: a call in progress takes its next step. *)
FairSpec == Spec /\ WF_vars(Next)

-----------------------------------------------------------------------------
(* Vocabulary of the properties. *)

(* The references evaluate() is to force: entry keys, entry values and the *)
(* references nested in the keys of other references.                      *)
EntryRefs == { r \in RefPaths : \A i \in DOMAIN r : r[i][2] # "parent" }

(* The reference is the key or the value of a table entry. *)
IsEntryExpr(r) == r # << >> /\ r[Len(r)][2] \in {"key", "value"}

Enclosing(r) == SubSeq(r, 1, Len(r) - 1)

Logged(ev) == { e \in log : e.ev = ev }

(* A call of _evaluate_ref(r) was made while r was being evaluated. *)
Reentered(r) == \E e \in Logged("REENTER") : e.ref = r

(* The value at the end of the caches that start at p. *)
RECURSIVE Terminal(_, _)
Terminal(p, n) ==
    IF n > 0 /\ Node(p).kind = "Ref" /\ cache[p] # NoneP
    THEN Terminal(cache[p], n - 1)
    ELSE p

Final(p) == Terminal(p, Cardinality(DOMAIN cache) + 1)

IsScalar(p) == Node(p).kind \in {"Str", "Bool", "Int", "Float"}

(* Key equality of the specification: same kind (String or Int), same value. *)
SameKey(p, q) == IsKey(Node(p)) /\ IsKey(Node(q)) /\ ValueEq(Node(p), Node(q))

-----------------------------------------------------------------------------
(* C1 - Cycle rejection: when forcing a reference R re-enters R before R's *)
(* cache is set, the evaluate call ends in an error, it does not return    *)
(* successfully, and R's cache is never R itself or a reference that leads *)
(* back to R.  (Stated for the first evaluate call of a table.)            *)
C1_CycleRejection ==
    \A r \in RefPaths :
        Reentered(r) /\ calls = 1 =>
            /\ status # "returned"
            /\ ~RefChain(r, Cardinality(DOMAIN cache))

(* C2 - Termination: every call of evaluate eventually finishes, returning *)
(* the tree or reporting an error.                                         *)
C2_Termination == (status = "running") ~> (status \in {"returned", "raised"})

(* C3 - Terminal cache: the cache of a reference that consumed a key       *)
(* segment is never a reference node: when the entry selected has a        *)
(* reference as its value, the terminal value of that reference is stored. *)
C3_TerminalCache ==
    \A r \in RefPaths :
        cache[r] # NoneP /\ Node(r).keys # << >> => Node(cache[r]).kind # "Ref"

(* C4 - No partial success: when evaluate returns without an error every   *)
(* reference reachable from the root has its cache populated.  (Stated for *)
(* the first evaluate call of a table.)                                    *)
C4_NoPartialSuccess ==
    status = "returned" /\ calls = 1 /\ tree.kind = "Table" =>
        \A r \in EntryRefs : cache[r] # NoneP

(* C5 - Missing key: a scan that ends without a match makes the reference  *)
(* fail with an error (KeyError is the key-not-found error of the code;    *)
(* with no item key bound yet its construction raises UnboundLocalError),  *)
(* and its cache is never the table that was searched.                     *)
C5_MissingKey ==
    \A e \in Logged("NOTFOUND") :
        /\ e.exc \in {"KeyError", "UnboundLocalError"}
        /\ cache[e.ref] # e.table

(* C6 - Index on non-table: a key segment applied to a Scalar target (or   *)
(* to a reference whose terminal value is a Scalar) fails with a type      *)
(* error; the target is never stored as the cache.                         *)
C6_IndexOnNonTable ==
    \A e \in Logged("NOTTABLE") :
        IsScalar(Final(e.table)) => e.exc = "TypeError" /\ cache[e.ref] # e.table

PassedOver(e, i) ==
    \E o \in log :
        /\ o.ref = e.ref /\ o.seg = e.seg /\ o.table = e.table /\ o.item = i
        /\ \/ o.ev = "OK" /\ ~SameKey(o.item_key, e.key)
           \/ o.ev = "FAILURE"

C8_DirectLookup ==
    status \in {"probed", "probe raised"} =>
        /\ status = "probed"
        /\ Final(cache[ProbeP(probe)]) = Final(ItemValueP(RootP, probe))

(* C9 - Sibling-key skip: no failure of unwrapping the key of a scanned     *)
(* entry propagates out of the lookup that scans; the entry is skipped and *)
(* the scan continues.                                                     *)
C9_SiblingKeySkip ==
    \A e \in Logged("PROPAGATED") : e.pc # "gotitem"

(* C10 - Relative resolution: the first key segment of a Relative          *)
(* reference that is the key or the value of an entry of table N is looked *)
(* up in N, at any depth, and the first segment of an Absolute reference   *)
(* in the root; a single-key reference resolves to the entry it matched in *)
(* that table.                                                             *)
C10_RelativeResolution ==
    \A e \in log :
        e.ev \in {"MATCH", "OK", "FAILURE", "NOTFOUND"} /\ e.seg = 1 =>
            /\ Node(e.ref).modifier = ABSOLUTE => e.table = RootP
            /\ Node(e.ref).modifier = RELATIVE /\ IsEntryExpr(e.ref) =>
                    e.table = Enclosing(e.ref)
            /\ e.ev = "MATCH" /\ Len(Node(e.ref).keys) = 1 /\ cache[e.ref] # NoneP =>
                    cache[e.ref] = ItemValueP(e.table, e.item)

(* A relative reference two tables below the root resolved to an entry of  *)
(* its own table although the root has an entry with the same key.         *)
C10_Witness ==
    \E e \in Logged("MATCH") :
        /\ Node(e.ref).modifier = RELATIVE
        /\ Len(e.ref) >= 3
        /\ e.table = Enclosing(e.ref)
        /\ cache[e.ref] = ItemValueP(e.table, e.item)
        /\ \E i \in DOMAIN tree.items : SameKey(ItemKeyP(RootP, i), e.key)

(* C11 - Scope error: forcing a Relative reference whose scope is absent   *)
(* (the root is not a table, or the resolver assigned no scope) fails;     *)
(* evaluate never returns successfully with such a reference forced and    *)
(* its cache absent.                                                       *)
C11_ScopeError ==
    status = "returned" =>
        \A r \in RefPaths :
            Node(r).modifier = RELATIVE /\ parent[r] = NoneP /\ evaluated[r] =>
                cache[r] # NoneP

(* The call number n of evaluate returned without an error. *)
Succeeded(n) == \E e \in Logged("RETURNED") : e.seg = n

(* C12 - Idempotence: a call of evaluate on a tree that the call before it *)
(* resolved successfully raises no error and leaves the scope, the flag    *)
(* and the cache of every reference of the tree as that call left them.    *)
C12_Idempotence ==
    [][calls' >= 2 /\ Succeeded(calls' - 1) =>
          /\ status' # "raised"
          /\ \A r \in RefPaths :
                /\ parent'[r] = parent[r]
                /\ cache'[r] = cache[r]
                /\ evaluated'[r] = evaluated[r]]_vars

(* A second evaluate returned after a first successful one, on a tree with *)
(* a resolved reference that the second call met again.                    *)
C12_Witness ==
    /\ status = "returned"
    /\ calls = 2
    /\ Succeeded(1)
    /\ Succeeded(2)
    /\ \E r \in EntryRefs :
          /\ cache[r] # NoneP
          /\ \E e \in Logged("HOT EXIT") : e.ref = r

(* C13 - Write-once memoization: over any sequence of evaluate calls and   *)
(* nested force calls, a cache that holds a value is never assigned a      *)
(* different value.                                                        *)
C13_WriteOnce ==
    [][\A r \in DOMAIN cache : cache[r] # NoneP => cache'[r] = cache[r]]_vars

(* A reference with a populated cache was forced again, by a nested force  *)
(* and by a second evaluate call.                                          *)
C13_Witness ==
    /\ calls = 2
    /\ status = "returned"
    /\ \E r \in RefPaths :
          /\ cache[r] # NoneP
          /\ Node(cache[r]).kind # "Table"
          /\ \E e \in Logged("HOT EXIT") : e.ref = r
          /\ \E e \in Logged("MATCH") : e.ref = r

(* C14 - Frame: resolve and evaluate leave the shape of the tree unchanged *)
(* (every table's entries and their order, every entry's key, value and    *)
(* scope override, every reference's keys and modifier), on success and on *)
(* error; only a reference's scope, flag and cache are written.            *)
C14_Frame == [][tree' = tree]_vars

(* evaluate wrote scopes, flags and caches of a table's references and     *)
(* then ended in an error.                                                 *)
C14_Witness ==
    /\ status = "raised"
    /\ tree.kind = "Table"
    /\ \E r \in RefPaths : parent[r] # NoneP /\ evaluated[r] /\ cache[r] # NoneP
    /\ \E r \in RefPaths : evaluated[r] /\ cache[r] = NoneP

(* The nearest table above the node at path r, NoneP if there is none. *)
EnclosingTable(r) ==
    LET ts == { n \in 0..(Len(r) - 1) : Node(SubSeq(r, 1, n)).kind = "Table" }
    IN  IF ts = {} THEN NoneP
        ELSE SubSeq(r, 1, CHOOSE n \in ts : \A m \in ts : m <= n)

(* C15 - Resolver covers nested key references: after the resolver pass    *)
(* over a tree rooted at a table every reference, a reference inside the   *)
(* keys of another reference included, has the nearest enclosing table as  *)
(* its scope; none is left with an absent scope.                           *)
C15_ResolverCoversKeys ==
    calls >= 1 /\ tree.kind = "Table" =>
        \A r \in RefPaths : parent[r] = EnclosingTable(r)

(* C16 - Key equality by kind: a lookup selects only an entry whose key    *)
(* unwrapped to a key of the same kind and value as the key segment        *)
(* (String with String, Int with Int, never String with Int), it passes    *)
(* over no entry whose key unwrapped to such a key, and a lookup by an Int *)
(* key in a table that has an entry with that Int as its key does not end  *)
(* without a match.                                                        *)
C16_KeyEqualityByKind ==
    /\ \A e \in Logged("MATCH") : SameKey(e.item_key, e.key)
    /\ \A e \in Logged("OK") : ~SameKey(e.item_key, e.key)
    /\ \A e \in Logged("NOTFOUND") :
          Node(e.key).kind = "Int" =>
              \A i \in DOMAIN Node(e.table).items : ~SameKey(ItemKeyP(e.table, i), e.key)

(* This step takes the call of _evaluate_ref(r) past the flag test, into   *)
(* the lookup body.                                                        *)
EntersBody(r) ==
    /\ stack # << >>
    /\ Top.fn = "_evaluate_ref" /\ Top.pc = "enter" /\ Top.node = r
    /\ Len(stack') >= Len(stack)
    /\ stack'[Len(stack)].pc # "enter"

(* The lookup body of r was left by an exception. *)
Failed(r) == \E e \in Logged("RAISED") \cup Logged("PROPAGATED") : e.ref = r

(* C17 - the flag of a reference only goes from unset to set, a populated  *)
(* cache implies the flag is set, the lookup body of a reference is        *)
(* entered only while its flag is unset (so at most once over any sequence *)
(* of evaluate calls), and a reference whose lookup raised keeps its flag  *)
(* set and its cache absent: it is never retried.                          *)
C17_FlagMonotone ==
    [][\A r \in DOMAIN evaluated :
          /\ evaluated[r] => evaluated'[r]
          /\ cache'[r] # NoneP => evaluated'[r]
          /\ EntersBody(r) => ~evaluated[r] /\ evaluated'[r]
          /\ Failed(r) => evaluated[r] /\ cache[r] = NoneP /\ cache'[r] = NoneP]_vars

(* A reference whose lookup raised was forced again, in a second evaluate  *)
(* call too, and returned at once with its cache absent.                   *)
C17_Witness ==
    /\ calls = 2
    /\ tree.kind = "Table"
    /\ status \in {"returned", "raised"}
    /\ \E r \in RefPaths :
          /\ Failed(r)
          /\ \E e \in Logged("HOT EXIT") : e.ref = r
          /\ evaluated[r]
          /\ cache[r] = NoneP

====
